---- MODULE Spec2Model ----
(***************************************************************************)
(* Model of CameraService (src/src/app/services/camera.service.ts): the    *)
(* MRZ pipeline parseMRZFromText with its helpers getDocumentType and      *)
(* formatMRZDate, and the service at work: camera, scan timer and scans.   *)
(* Strings are sequences of one-character strings, so that split, trim,    *)
(* toUpperCase, replace, substring and padEnd are computed as JavaScript   *)
(* computes them.  The parser imported from the 'mrz' package is outside   *)
(* the repository: each of its calls returns a result (valid or invalid,   *)
(* with fields) or throws, as chosen by the environment.                   *)
(***************************************************************************)
EXTENDS Integers, Sequences, FiniteSets, TLC

VARIABLES
  pc,           \* "ready" before the operation under study has run, "done" after
  text,         \* the argument of parseMRZFromText
  parser,       \* what the 'mrz' parser does when called
  mrzData,      \* the signal mrzData
  mrzError,     \* the signal mrzError
  parserCalls,  \* the calls of the parser made by the last parseMRZFromText
  escaped,      \* whether the last parseMRZFromText threw to its caller
  prior,        \* mrzData and mrzError as parseMRZFromText finds or found them
  dateArg,      \* the argument of formatMRZDate
  dateOut,      \* the value formatMRZDate returned
  ckOriginal,   \* a checksum-covered field as built
  ckField,      \* the field as read, one character possibly replaced
  ckDigit,      \* the check digit embedded with the field
  ckValid,      \* the validator's verdict on ckField and ckDigit
  docCode,      \* the argument of getDocumentType
  docType,      \* the value getDocumentType returned
  isStreaming,  \* the signal isStreaming
  isScanning,   \* the signal isScanning
  scanProgress, \* the signal scanProgress
  scannedText,  \* the signal scannedText
  error,        \* the signal error
  mediaStream,  \* the field mediaStream: "null" or "stream"
  scanInterval, \* the field scanInterval: NoTimer or the handle of a timer
  timers,       \* the handles of the timers set and not cleared
  handles,      \* the number of handles setInterval has returned
  starting,     \* the calls of startCamera waiting for getUserMedia, for play
  inFlight,     \* the calls of Tesseract.recognize not settled, by source
  quiet,        \* stopCamera has returned, and startCamera or a scan was not
                \* asked for since
  stale,        \* while quiet: the recognitions from the video that were in
                \* flight when stopCamera returned and have not settled
  selectedLines, \* the lines the filter of parseMRZFromText kept
  width,        \* the width lines are fitted to
  fitted,       \* the lines of the text, each normalized for the width
  refitted      \* the lines of fitted, each normalized for the width again

vars ==
  <<pc, text, parser, mrzData, mrzError, parserCalls, escaped, prior, dateArg, dateOut,
    ckOriginal, ckField, ckDigit, ckValid, docCode, docType,
    isStreaming, isScanning, scanProgress, scannedText, error, mediaStream,
    scanInterval, timers, handles, starting, inFlight, quiet, stale,
    selectedLines, width, fitted, refitted>>

pipelineVars ==
  <<text, parser, mrzData, mrzError, parserCalls, escaped, prior,
    selectedLines, width, fitted, refitted>>
dateVars == <<dateArg, dateOut>>
checkVars == <<ckOriginal, ckField, ckDigit, ckValid>>
docVars == <<docCode, docType>>
linesVars == <<selectedLines, width, fitted, refitted>>
cameraVars == <<mediaStream, scanInterval, timers, handles, starting>>
serviceVars ==
  <<isStreaming, isScanning, scanProgress, scannedText, error, inFlight, quiet,
    stale, cameraVars>>

(***************************************************************************)
(* Bounds of the model.                                                    *)
(***************************************************************************)
\* Largest number of lines of an input text.
MaxLines == 3
\* Largest number of timers set by startCamera in one run.
MaxTimers == 2
\* Largest number of OCR calls in flight at one time.
MaxScans == 2

(***************************************************************************)
(* Program constants.                                                      *)
(***************************************************************************)
\* /^[A-Z0-9<]{30,}$/ : the least length of a line matched by the pattern.
MinPatternLen == 30
\* TD1: 3 lines of 30 characters.
TD1Lines == 3
TD1Width == 30
\* TD2: 2 lines of 36 characters.
TD2Lines == 2
TD2Width == 36
\* TD3: 2 lines of 44 characters.
TD3Width == 44

(***************************************************************************)
(* Characters and JavaScript string operations.                            *)
(***************************************************************************)
Lower == <<"a","b","c","d","e","f","g","h","i","j","k","l","m",
           "n","o","p","q","r","s","t","u","v","w","x","y","z">>
Upper == <<"A","B","C","D","E","F","G","H","I","J","K","L","M",
           "N","O","P","Q","R","S","T","U","V","W","X","Y","Z">>
Digits == <<"0","1","2","3","4","5","6","7","8","9">>

Range(s) == {s[i] : i \in 1..Len(s)}

LowerSet == Range(Lower)
\* The characters of the class [A-Z0-9<].
MRZAlphabet == Range(Upper) \cup Range(Digits) \cup {"<"}
\* The upper-case letter of each lower-case letter.
UpperOf == [c \in LowerSet |-> Upper[CHOOSE i \in 1..26 : Lower[i] = c]]

Min(a, b) == IF a < b THEN a ELSE b

\* A function on 1..n is written f \o <<>> below where it stands for a string
\* or an array: the same value, which TLC then computes once, when it is built.

\* A string of n copies of the character c.
Rep(c, n) == [i \in 1..n |-> c] \o <<>>

\* The line tabulation U+000B, for which a string has no escape: the
\* character itself stands between the quotes.
VT == ""

\* The characters matched by \s, and removed by trim(): those of them a
\* string of the model can hold (the others are not ASCII).
IsWhitespace(c) == c \in {" ", "\t", "\n", "\r", "\f", VT}

\* String.prototype.toUpperCase, on one character.
UpperChar(c) == IF c \in LowerSet THEN UpperOf[c] ELSE c

toUpperCase(s) == [i \in 1..Len(s) |-> UpperChar(s[i])] \o <<>>

\* String.prototype.trim: leading and trailing whitespace removed.
RECURSIVE firstSolid(_, _)
firstSolid(s, i) ==
  IF i > Len(s) \/ ~IsWhitespace(s[i]) THEN i ELSE firstSolid(s, i + 1)

RECURSIVE lastSolid(_, _)
lastSolid(s, i) ==
  IF i < 1 \/ ~IsWhitespace(s[i]) THEN i ELSE lastSolid(s, i - 1)

trim(s) == SubSeq(s, firstSolid(s, 1), lastSolid(s, Len(s)))

\* text.split('\n'): the pieces between line feeds; '' gives [''].
\* The least of the places in feeds, or past if there is none.
leastOf(feeds, past) ==
  IF feeds = {} THEN past ELSE CHOOSE m \in feeds : \A k \in feeds : m <= k

\* The place of the first line feed of s from the place from on, or
\* Len(s) + 1.
nextFeed(s, from) == leastOf({i \in from..Len(s) : s[i] = "\n"}, Len(s) + 1)

\* from: where the piece being read starts; feed: where it ends.
RECURSIVE splitAt(_, _, _)
splitAt(s, from, feed) ==
  IF feed > Len(s) THEN <<SubSeq(s, from, Len(s))>>
  ELSE <<SubSeq(s, from, feed - 1)>> \o splitAt(s, feed + 1, nextFeed(s, feed + 1))

split(s) == splitAt(s, 1, nextFeed(s, 1))

\* line.replace(/\s/g, '')
IsSolid(c) == ~IsWhitespace(c)
stripWhitespace(s) == SelectSeq(s, IsSolid)

\* line.includes('<')
includes(s, c) == \E i \in 1..Len(s) : s[i] = c

\* /^[A-Z0-9<]{30,}$/.test(s)
matchesMRZPattern(s) ==
  /\ Len(s) >= MinPatternLen
  /\ \A i \in 1..Len(s) : s[i] \in MRZAlphabet

\* Variant of zeroForO that replaces the first O only, as replace('O', '0')
\* does.
zeroForFirstO(s) ==
  [i \in 1..Len(s) |->
     IF s[i] = "O" /\ \A j \in 1..(i - 1) : s[j] # "O" THEN "0" ELSE s[i]] \o <<>>

\* s.replace(/O/g, '0').replace(/</g, '<')
zeroForO(s) == [i \in 1..Len(s) |-> IF s[i] = "O" THEN "0" ELSE s[i]] \o <<>>
fillerForFiller(s) == [i \in 1..Len(s) |-> IF s[i] = "<" THEN "<" ELSE s[i]] \o <<>>
fixOCR(s) == fillerForFiller(zeroForO(s))

\* s.substring(0, w)
substring0(s, w) == SubSeq(s, 1, Min(w, Len(s)))

\* Variant of padEnd that adds no filler.
padEndNoFill(s, w) == s

\* s.padEnd(w, '<')
padEnd(s, w) == IF Len(s) >= w THEN s ELSE s \o Rep("<", w - Len(s))

\* l.substring(0, w).padEnd(w, '<')
fitWidth(s, w) == padEnd(substring0(s, w), w)

\* array.slice(0, n)
slice0(a, n) == SubSeq(a, 1, Min(n, Len(a)))

(***************************************************************************)
(* Values that are not strings.                                            *)
(***************************************************************************)
\* null and undefined where a string may stand; neither is a string of
\* characters, since no character is "null" or "undefined".
NullStr == <<"null">>
Undefined == <<"undefined">>

\* The operand of `x || y` and `!x` counts as false: null, undefined or ''.
Falsy(v) == v = NullStr \/ v = Undefined \/ v = <<>>

\* x || y
OrElse(x, y) == IF Falsy(x) THEN y ELSE x

(***************************************************************************)
(* parseInt(string), radix not given.                                      *)
(***************************************************************************)
HexLetters == <<"a","b","c","d","e","f">>

\* The value of character c as a digit of the radix, or -1 when it is none.
DigitValue(c, radix) ==
  IF c \in Range(Digits)
    THEN (CHOOSE i \in 1..10 : Digits[i] = c) - 1
    ELSE IF radix = 16 /\ c \in Range(HexLetters)
      THEN (CHOOSE i \in 1..6 : HexLetters[i] = c) + 9
      ELSE IF radix = 16 /\ c \in Range(SubSeq(Upper, 1, 6))
        THEN (CHOOSE i \in 1..6 : Upper[i] = c) + 9
        ELSE -1

\* The number read from the longest prefix of s made of digits of the radix,
\* after acc; seen tells whether a digit was read.
RECURSIVE readDigits(_, _, _, _)
readDigits(s, radix, acc, seen) ==
  IF s = <<>> \/ DigitValue(Head(s), radix) < 0
    THEN [nan |-> ~seen, value |-> acc]
    ELSE readDigits(Tail(s), radix, acc * radix + DigitValue(Head(s), radix), TRUE)

\* The leading whitespace of s removed.
RECURSIVE trimStart(_)
trimStart(s) ==
  IF s # <<>> /\ IsWhitespace(Head(s)) THEN trimStart(Tail(s)) ELSE s

\* parseInt(s): NaN is [nan |-> TRUE].
parseInt(s) ==
  LET t == trimStart(s)
      signed == t # <<>> /\ Head(t) \in {"+", "-"}
      u == IF signed THEN Tail(t) ELSE t
      hex == Len(u) >= 2 /\ u[1] = "0" /\ u[2] \in {"x", "X"}
      n == IF hex THEN readDigits(SubSeq(u, 3, Len(u)), 16, 0, FALSE)
                  ELSE readDigits(u, 10, 0, FALSE)
  IN  IF signed /\ Head(t) = "-" THEN [nan |-> n.nan, value |-> 0 - n.value] ELSE n

\* n < k for a number n that may be NaN: every comparison with NaN is false.
NumLess(n, k) == ~n.nan /\ n.value < k

(***************************************************************************)
(* formatMRZDate (camera.service.ts 273-281).                              *)
(***************************************************************************)
\* The length a date string must have.
DateLen == 6
\* Two-digit years below this one are in the 2000s.
CenturyPivot == 30

\* s.substring(a, b), for 0 <= a <= b
substring(s, a, b) == SubSeq(s, a + 1, Min(b, Len(s)))

\* Variant of formatMRZDate whose 2000s reach the year 30 included.
formatMRZDateLate(dateStr) ==
  IF Falsy(dateStr) \/ Len(dateStr) # DateLen THEN <<>>
  ELSE LET year == substring(dateStr, 0, 2)
           month == substring(dateStr, 2, 4)
           day == substring(dateStr, 4, 6)
           fullYear == IF NumLess(parseInt(year), CenturyPivot + 1)
                         THEN <<"2", "0">> \o year ELSE <<"1", "9">> \o year
       IN  fullYear \o <<"-">> \o month \o <<"-">> \o day

formatMRZDate(dateStr) ==
  IF Falsy(dateStr) \/ Len(dateStr) # DateLen THEN <<>>
  ELSE LET year == substring(dateStr, 0, 2)
           month == substring(dateStr, 2, 4)
           day == substring(dateStr, 4, 6)
           fullYear == IF NumLess(parseInt(year), CenturyPivot)
                         THEN <<"2", "0">> \o year ELSE <<"1", "9">> \o year
       IN  fullYear \o <<"-">> \o month \o <<"-">> \o day

(***************************************************************************)
(* getDocumentType (camera.service.ts 259-271).                            *)
(***************************************************************************)
\* Variant of getDocumentType whose default label carries the first
\* character only.
getDocumentTypeFirstChar(code) ==
  IF Falsy(code) THEN <<"U","n","k","n","o","w","n">>
  ELSE LET firstChar == UpperChar(code[1])
       IN  CASE firstChar = "P" -> <<"P","a","s","s","p","o","r","t">>
             [] firstChar = "I" -> <<"I","D"," ","C","a","r","d">>
             [] firstChar = "A" ->
                  <<"I","D"," ","C","a","r","d"," ","(","T","y","p","e"," ","A",")">>
             [] firstChar = "C" ->
                  <<"I","D"," ","C","a","r","d"," ","(","T","y","p","e"," ","C",")">>
             [] firstChar = "V" -> <<"V","i","s","a">>
             [] firstChar = "D" ->
                  <<"D","r","i","v","e","r","'","s"," ","L","i","c","e","n","s","e">>
             [] OTHER ->
                  <<"D","o","c","u","m","e","n","t"," ","(", firstChar, ")">>

getDocumentType(code) ==
  IF Falsy(code) THEN <<"U","n","k","n","o","w","n">>
  ELSE LET firstChar == UpperChar(code[1])
       IN  CASE firstChar = "P" -> <<"P","a","s","s","p","o","r","t">>
             [] firstChar = "I" -> <<"I","D"," ","C","a","r","d">>
             [] firstChar = "A" ->
                  <<"I","D"," ","C","a","r","d"," ","(","T","y","p","e"," ","A",")">>
             [] firstChar = "C" ->
                  <<"I","D"," ","C","a","r","d"," ","(","T","y","p","e"," ","C",")">>
             [] firstChar = "V" -> <<"V","i","s","a">>
             [] firstChar = "D" ->
                  <<"D","r","i","v","e","r","'","s"," ","L","i","c","e","n","s","e">>
             [] OTHER ->
                  <<"D","o","c","u","m","e","n","t"," ","(">> \o code \o <<")">>

(***************************************************************************)
(* The signals mrzData and mrzError.                                       *)
(***************************************************************************)
\* mrzData() = null
NullData == [null |-> TRUE]
\* mrzError() = null
NoError == "null"

NoMRZMsg ==
  "No MRZ detected. Position the MRZ zone (bottom of ID/passport) in view."
IncompleteMsg == "Incomplete MRZ detected. Need at least 2 lines."
ValidationFailedMsg ==
  "MRZ detected but validation failed. Try adjusting the camera angle."
CouldNotParseMsg ==
  "Could not parse MRZ. Ensure the document is clearly visible."

Diagnostics == {NoMRZMsg, IncompleteMsg, ValidationFailedMsg, CouldNotParseMsg}

(***************************************************************************)
(* The parser of the 'mrz' package, as its caller sees it.  Its n-th call  *)
(* of one invocation of the pipeline returns a result or throws, as the    *)
(* environment's choice `p` says.                                          *)
(***************************************************************************)
Outcomes == {"valid", "invalid", "throw"}

parseMRZ(p, n, lines) ==
  LET o == IF n = 1 THEN p.first ELSE p.second
  IN  [threw |-> o = "throw", valid |-> o = "valid", fields |-> p.fields]

(***************************************************************************)
(* parseMRZFromText (camera.service.ts 182-257).                           *)
(***************************************************************************)
\* 185: text.split('\n').map(line => line.trim().toUpperCase())
upperTrimmed(line) == toUpperCase(trim(line))
linesOf(pieces) == [i \in 1..Len(pieces) |-> upperTrimmed(pieces[i])] \o <<>>
splitLines(t) == linesOf(split(t))

\* Variant of isCandidate that tests the pattern on the line with its
\* whitespace.
isCandidateSpaced(line) ==
  includes(line, "<") \/ matchesMRZPattern(line)

\* 186-188: the filter's test of one line
isCandidate(line) ==
  includes(line, "<") \/ matchesMRZPattern(stripWhitespace(line))

\* 186-188: lines.filter(...)
mrzLinesOf(t) == SelectSeq(splitLines(t), isCandidate)

\* 197-201: one cleaned line
cleanLine(line) == fixOCR(stripWhitespace(line))

\* 197-201: mrzLines.map(...)
cleanedLinesOf(mrzLines) ==
  [i \in 1..Len(mrzLines) |-> cleanLine(mrzLines[i])] \o <<>>

\* 208, 213, 220, 223: cleanedLines.slice(0, n).map(l => l.substring(0, w).padEnd(w, '<'))
fitAll(taken, w) == [i \in 1..Len(taken) |-> fitWidth(taken[i], w)] \o <<>>
fitLines(cleaned, n, w) == fitAll(slice0(cleaned, n), w)

\* 185, 197-201, 208: the normalizer of one line for the width w: upper
\* case, whitespace removed, O replaced, cut and padded.
normalized(line, w) == fitWidth(cleanLine(upperTrimmed(line)), w)

\* One call of the parser: the format attempted, the lines handed over, and
\* what came back.
Attempt(p, n, format, lines) ==
  [format |-> format, lines |-> lines, result |-> parseMRZ(p, n, lines)]

\* 206-230: the format selection.  calls: the parser's calls in order;
\* incomplete: the else branch (227-229) was taken; threw: an exception left
\* the selection; parseResult: the value of parseResult at line 232.
Selected(calls) ==
  [calls |-> calls, incomplete |-> FALSE,
   threw |-> calls[Len(calls)].result.threw,
   parseResult |-> calls[Len(calls)].result]

\* Variant of afterTD1 that makes the TD2 attempt whatever the TD1 attempt
\* returned.
afterTD1Always(a1, cleaned, p) ==
  Selected(<<a1, Attempt(p, 2, "TD2", fitLines(cleaned, TD2Lines, TD2Width))>>)

\* 209-215: the TD1 attempt a1 made, and the catch block's second attempt
afterTD1(a1, cleaned, p) ==
  IF a1.result.threw
    THEN Selected(<<a1, Attempt(p, 2, "TD2", fitLines(cleaned, TD2Lines, TD2Width))>>)
    ELSE Selected(<<a1>>)

\* Variant of selectFormat that chooses between TD3 and TD2 by the longer
\* of the first two lines.
selectFormatByLongerLine(cleaned, p) ==
  IF Len(cleaned) >= 3 THEN
    afterTD1(Attempt(p, 1, "TD1", fitLines(cleaned, TD1Lines, TD1Width)), cleaned, p)
  ELSE IF Len(cleaned) >= 2 THEN
    IF Len(cleaned[1]) >= TD3Width \/ Len(cleaned[2]) >= TD3Width
      THEN Selected(<<Attempt(p, 1, "TD3", fitLines(cleaned, TD2Lines, TD3Width))>>)
      ELSE Selected(<<Attempt(p, 1, "TD2", fitLines(cleaned, TD2Lines, TD2Width))>>)
  ELSE [calls |-> <<>>, incomplete |-> TRUE, threw |-> FALSE,
        parseResult |-> [threw |-> FALSE, valid |-> FALSE, fields |-> p.fields]]

\* Variant of selectFormat whose second branch is taken from 1 line on.
selectFormatFromOneLine(cleaned, p) ==
  IF Len(cleaned) >= 3 THEN
    afterTD1(Attempt(p, 1, "TD1", fitLines(cleaned, TD1Lines, TD1Width)), cleaned, p)
  ELSE IF Len(cleaned) >= 1 THEN
    IF Len(cleaned[1]) >= TD3Width
      THEN Selected(<<Attempt(p, 1, "TD3", fitLines(cleaned, TD2Lines, TD3Width))>>)
      ELSE Selected(<<Attempt(p, 1, "TD2", fitLines(cleaned, TD2Lines, TD2Width))>>)
  ELSE [calls |-> <<>>, incomplete |-> TRUE, threw |-> FALSE,
        parseResult |-> [threw |-> FALSE, valid |-> FALSE, fields |-> p.fields]]

selectFormat(cleaned, p) ==
  IF Len(cleaned) >= 3 THEN
    afterTD1(Attempt(p, 1, "TD1", fitLines(cleaned, TD1Lines, TD1Width)), cleaned, p)
  ELSE IF Len(cleaned) >= 2 THEN
    IF Len(cleaned[1]) >= TD3Width
      THEN Selected(<<Attempt(p, 1, "TD3", fitLines(cleaned, TD2Lines, TD3Width))>>)
      ELSE Selected(<<Attempt(p, 1, "TD2", fitLines(cleaned, TD2Lines, TD2Width))>>)
  ELSE [calls |-> <<>>, incomplete |-> TRUE, threw |-> FALSE,
        parseResult |-> [threw |-> FALSE, valid |-> FALSE, fields |-> p.fields]]

\* 234-246: the record handed to mrzData.set
recordOf(parseResult, cleaned) ==
  LET fields == parseResult.fields
  IN  [documentType |-> getDocumentType(OrElse(fields.documentCode, <<>>)),
       documentNumber |-> OrElse(fields.documentNumber, <<>>),
       firstName |-> OrElse(fields.firstName, <<>>),
       lastName |-> OrElse(fields.lastName, <<>>),
       nationality |-> OrElse(fields.nationality, <<>>),
       birthDate |-> formatMRZDate(OrElse(fields.birthDate, Undefined)),
       sex |-> OrElse(fields.sex, <<>>),
       expirationDate |-> formatMRZDate(OrElse(fields.expirationDate, Undefined)),
       issuingState |-> OrElse(fields.issuingState, <<>>),
       valid |-> parseResult.valid,
       rawMRZ |-> cleaned]

\* Variant of project that does not test parseResult.valid.
projectAnyResult(parseResult, cleaned, prev) ==
  [mrzData |-> recordOf(parseResult, cleaned), mrzError |-> NoError]

\* Variant of project that leaves mrzData as it was when the result is not
\* valid.
projectKeepsData(parseResult, cleaned, prev) ==
  IF parseResult.valid
    THEN [mrzData |-> recordOf(parseResult, cleaned), mrzError |-> NoError]
    ELSE [mrzData |-> prev.mrzData, mrzError |-> ValidationFailedMsg]

\* 232-251: what is published for the parser's result
project(parseResult, cleaned, prev) ==
  IF parseResult.valid
    THEN [mrzData |-> recordOf(parseResult, cleaned), mrzError |-> NoError]
    ELSE [mrzData |-> NullData, mrzError |-> ValidationFailedMsg]

\* 232-251, 252: after the selection sel: nothing is published when the
\* parser's exception is on its way to the catch block.
afterSelect(sel, cleanedLines, prev) ==
  IF sel.incomplete
    THEN [threw |-> FALSE, calls |-> <<>>,
          mrzData |-> NullData, mrzError |-> IncompleteMsg]
  ELSE IF sel.threw
    THEN [threw |-> TRUE, calls |-> sel.calls,
          mrzData |-> prev.mrzData, mrzError |-> prev.mrzError]
  ELSE [threw |-> FALSE, calls |-> sel.calls]
         @@ project(sel.parseResult, cleanedLines, prev)

\* 203-251: after the cleaning
afterClean(cleanedLines, p, prev) ==
  afterSelect(selectFormat(cleanedLines, p), cleanedLines, prev)

\* Variant of afterFilter that leaves mrzError alone when no line is a
\* candidate.
afterFilterSilent(mrzLines, p, prev) ==
  IF Len(mrzLines) = 0
    THEN [threw |-> FALSE, calls |-> <<>>,
          mrzData |-> NullData, mrzError |-> prev.mrzError]
    ELSE afterClean(cleanedLinesOf(mrzLines), p, prev)

\* 190-251: after the filter
afterFilter(mrzLines, p, prev) ==
  IF Len(mrzLines) = 0
    THEN [threw |-> FALSE, calls |-> <<>>,
          mrzData |-> NullData, mrzError |-> NoMRZMsg]
    ELSE afterClean(cleanedLinesOf(mrzLines), p, prev)

\* 183-251: the body of the try block.  prev: the signals before the call.
\* threw: an exception left the block.
tryBlock(t, p, prev) == afterFilter(mrzLinesOf(t), p, prev)

\* Variant of catchBlock that lets the exception through.
catchBlockMissing(r) ==
  [escaped |-> r.threw, calls |-> r.calls,
   mrzData |-> r.mrzData, mrzError |-> r.mrzError]

\* Variant of catchBlock that publishes the diagnostic of an invalid result.
catchBlockSaysInvalid(r) ==
  IF r.threw
    THEN [escaped |-> FALSE, calls |-> r.calls,
          mrzData |-> NullData, mrzError |-> ValidationFailedMsg]
    ELSE [escaped |-> FALSE, calls |-> r.calls,
          mrzData |-> r.mrzData, mrzError |-> r.mrzError]

\* 252-256: the catch block.  escaped: an exception reached the caller.
catchBlock(r) ==
  IF r.threw
    THEN [escaped |-> FALSE, calls |-> r.calls,
          mrzData |-> NullData, mrzError |-> CouldNotParseMsg]
    ELSE [escaped |-> FALSE, calls |-> r.calls,
          mrzData |-> r.mrzData, mrzError |-> r.mrzError]

\* 182-257: what the call leaves behind.
parseMRZFromText(t, p, prev) == catchBlock(tryBlock(t, p, prev))

(***************************************************************************)
(* Inputs of the pipeline.                                                 *)
(***************************************************************************)
\* Lines of an OCR transcript: lines without fillers of 29 and 30 characters
\* besides their whitespace, and lines with fillers of 43, 44 and 46
\* characters besides theirs.
LinePlain29 == <<" ", "n", "o", "\f">> \o Rep("7", 27)
LinePlain30 == Rep("a", 15) \o <<" ">> \o Rep("O", 15)
LineFiller43 == <<"\t", "i", "<">> \o Rep("T", 20) \o <<" ">> \o Rep("<", 21) \o <<VT>>
LineFiller44 == <<"p", "<">> \o Rep("o", 21) \o <<" ">> \o Rep("<", 21)
LineFiller46 == Rep("8", 40) \o Rep("<", 6)

SampleLines ==
  {LinePlain29, LinePlain30, LineFiller43, LineFiller44, LineFiller46}

\* The lines joined by line feeds.
RECURSIVE joinLines(_)
joinLines(ls) ==
  IF Len(ls) = 1 THEN ls[1] ELSE ls[1] \o <<"\n">> \o joinLines(Tail(ls))

\* The empty text, and the texts of 1 to MaxLines lines.
Texts ==
  {<<>>} \cup
  {joinLines(ls) : ls \in UNION {[1..n -> SampleLines] : n \in 1..MaxLines}}

\* Fields as the parser returns them: strings, or null where it found none.
FieldsPassport ==
  [documentCode |-> <<"P">>,
   documentNumber |-> <<"L", "8", "9", "8", "9", "0", "2", "C", "3">>,
   firstName |-> <<"A", "N", "N", "A">>,
   lastName |-> <<"E", "R", "I", "K", "S", "S", "0", "N">>,
   nationality |-> <<"U", "T", "0">>,
   birthDate |-> <<"7", "4", "0", "8", "1", "2">>,
   sex |-> <<"f", "e", "m", "a", "l", "e">>,
   expirationDate |-> <<"2", "9", "0", "4", "1", "5">>,
   issuingState |-> <<"U", "T", "0">>]

FieldsSparse ==
  [documentCode |-> NullStr,
   documentNumber |-> <<"D", "2", "3", "1", "4", "5", "8", "9", "0">>,
   firstName |-> NullStr,
   lastName |-> <<>>,
   nationality |-> <<"D">>,
   birthDate |-> <<"<", "<", "<", "<", "<", "<">>,
   sex |-> NullStr,
   expirationDate |-> NullStr,
   issuingState |-> <<"D">>]

SampleFields == {FieldsPassport, FieldsSparse}

\* What the parser does on its first and on its second call; a second call
\* after a first one that returned is taken to return valid.
Parsers ==
  {p \in [first : Outcomes, second : Outcomes, fields : SampleFields] :
     p.first = "throw" \/ p.second = "valid"}

\* The signals an invocation may find: as constructed, after a failure, and
\* after a success.
FreshSignals == [mrzData |-> NullData, mrzError |-> NoError]
FailedSignals == [mrzData |-> NullData, mrzError |-> ValidationFailedMsg]
StaleSignals ==
  [mrzData |-> recordOf([threw |-> FALSE, valid |-> TRUE, fields |-> FieldsPassport],
                        <<Rep("<", 3), Rep("<", 3)>>),
   mrzError |-> NoError]

PriorSignals == {FreshSignals, FailedSignals, StaleSignals}

(***************************************************************************)
(* Each specification below studies one operation; the variables of the    *)
(* others stay at rest.                                                    *)
(***************************************************************************)
LinesIdle ==
  /\ selectedLines = <<>>
  /\ width = TD1Width
  /\ fitted = <<>>
  /\ refitted = <<>>

SignalsIdle ==
  /\ parser = [first |-> "throw", second |-> "throw", fields |-> FieldsSparse]
  /\ mrzData = NullData
  /\ mrzError = NoError
  /\ parserCalls = <<>>
  /\ escaped = FALSE
  /\ prior = FreshSignals

PipelineIdle == text = <<>> /\ SignalsIdle /\ LinesIdle

DateIdle == dateArg = Undefined /\ dateOut = <<>>

CheckIdle ==
  /\ ckOriginal = <<>>
  /\ ckField = <<>>
  /\ ckDigit = "0"
  /\ ckValid = FALSE

DocIdle == docCode = <<>> /\ docType = <<>>

\* scanInterval = null
NoTimer == 0

\* The service as constructed (camera.service.ts 30-44).
ServiceIdle ==
  /\ isStreaming = FALSE
  /\ isScanning = FALSE
  /\ scanProgress = 0
  /\ scannedText = <<>>
  /\ error = NoError
  /\ mediaStream = "null"
  /\ scanInterval = NoTimer
  /\ timers = {}
  /\ handles = 0
  /\ starting = [media |-> 0, play |-> 0]
  /\ inFlight = [video |-> 0, image |-> 0]
  /\ quiet = FALSE
  /\ stale = 0

(***************************************************************************)
(* The check digit of a field, as the specification of the parser states   *)
(* it (the parser's code belongs to the 'mrz' package): the characters'    *)
(* values, a digit its own, a letter its place in the alphabet plus 9 (A   *)
(* is 10, Z is 35), the filler 0, weighted 7, 3, 1 in turn, summed, modulo *)
(* 10.                                                                     *)
(***************************************************************************)
Weights == <<7, 3, 1>>

CharValue(c) ==
  IF c \in Range(Digits) THEN (CHOOSE i \in 1..10 : Digits[i] = c) - 1
  ELSE IF c \in Range(Upper) THEN (CHOOSE i \in 1..26 : Upper[i] = c) + 9
  ELSE 0

\* Variant of weightAt with the weights 7, 2, 1.
weightAtEven(i) == <<7, 2, 1>>[((i - 1) % 3) + 1]
\* The weight of the i-th character of a field.
weightAt(i) == Weights[((i - 1) % 3) + 1]

RECURSIVE weightedSum(_, _)
weightedSum(field, i) ==
  IF i > Len(field) THEN 0
  ELSE CharValue(field[i]) * weightAt(i) + weightedSum(field, i + 1)

\* The check digit of the field, as a character.
checkDigit(field) == Digits[(weightedSum(field, 1) % 10) + 1]

\* The validation of a field against the check digit embedded with it.
validates(field, digit) == checkDigit(field) = digit

\* Longest field tried.
MaxFieldLen == 4

\* The characters tried in a field: of values 0, 6, 10, 11 and 0.
CheckChars == {"0", "6", "A", "B", "<"}

CheckFields == UNION {[1..n -> CheckChars] : n \in 1..MaxFieldLen}

\* A field built with its correct check digit.
InitCheck ==
  /\ ckOriginal \in CheckFields
  /\ ckField = ckOriginal
  /\ ckDigit = checkDigit(ckOriginal)
  /\ ckValid = FALSE
  /\ pc = "ready"
  /\ PipelineIdle
  /\ DateIdle
  /\ DocIdle
  /\ ServiceIdle

\* One character of the field is replaced by a different one.
Replace ==
  /\ pc = "ready"
  /\ \E i \in 1..Len(ckField) : \E c \in CheckChars \ {ckField[i]} :
       ckField' = [ckField EXCEPT ![i] = c]
  /\ pc' = "replaced"
  /\ UNCHANGED <<ckOriginal, ckDigit, ckValid, pipelineVars, dateVars, docVars, serviceVars>>

\* The field is validated.
Validate ==
  /\ pc \in {"ready", "replaced"}
  /\ ckValid' = validates(ckField, ckDigit)
  /\ pc' = "done"
  /\ UNCHANGED <<ckOriginal, ckField, ckDigit, pipelineVars, dateVars, docVars, serviceVars>>

NextCheck == Replace \/ Validate

SpecCheck == InitCheck /\ [][NextCheck]_vars

(***************************************************************************)
(* formatMRZDate applied to one date string.                               *)
(***************************************************************************)
\* Longest date string tried.
MaxDateLen == 7

\* The characters tried in the year, and in the rest of the string.
YearChars == Range(Digits) \cup {"A", "X", "<"}
RestChars == {"0", "1", "<"}

DateStrings ==
  {<<>>, Undefined} \cup {<<c>> : c \in YearChars}
    \cup {<<y[1], y[2]>> \o r :
            y \in [1..2 -> YearChars],
            r \in UNION {[1..n -> RestChars] : n \in 0..(MaxDateLen - 2)}}

InitDate ==
  /\ dateArg \in DateStrings
  /\ dateOut = <<>>
  /\ pc = "ready"
  /\ PipelineIdle
  /\ CheckIdle
  /\ DocIdle
  /\ ServiceIdle

FormatMRZDate ==
  /\ pc = "ready"
  /\ dateOut' = formatMRZDate(dateArg)
  /\ pc' = "done"
  /\ UNCHANGED <<dateArg, pipelineVars, checkVars, docVars, serviceVars>>

NextDate == FormatMRZDate

SpecDate == InitDate /\ [][NextDate]_vars

(***************************************************************************)
(* getDocumentType applied to one document code.                           *)
(***************************************************************************)
\* Longest document code tried.
MaxCodeLen == 2

\* The characters tried in a document code, of those a line in upper case
\* with O replaced can hold: the six letters of the switch, another letter,
\* a digit and the filler.
DocChars == {"P", "I", "A", "C", "V", "D", "X", "0", "<"}

\* fields.documentCode || '' : the empty code and the codes of 1 to
\* MaxCodeLen characters.
DocCodes == UNION {[1..n -> DocChars] : n \in 0..MaxCodeLen}

InitDoc ==
  /\ docCode \in DocCodes
  /\ docType = <<>>
  /\ pc = "ready"
  /\ PipelineIdle
  /\ DateIdle
  /\ CheckIdle
  /\ ServiceIdle

GetDocumentType ==
  /\ pc = "ready"
  /\ docType' = getDocumentType(docCode)
  /\ pc' = "done"
  /\ UNCHANGED <<docCode, pipelineVars, dateVars, checkVars, serviceVars>>

NextDoc == GetDocumentType

SpecDoc == InitDoc /\ [][NextDoc]_vars

(***************************************************************************)
(* The service at work: the camera started and stopped, the timer of the   *)
(* continuous scan, scans asked for by the component (part_001 36-58), and *)
(* the promises of getUserMedia, play and Tesseract.recognize settling in  *)
(* any order.  Each action is one run of JavaScript between two awaits.    *)
(***************************************************************************)
\* The variables of the operations studied one by one.
studyVars ==
  <<pc, text, parser, parserCalls, escaped, prior, dateVars, checkVars, docVars,
    linesVars>>

\* What getUserMedia and play reject with, and what reading
\* navigator.mediaDevices.getUserMedia throws where mediaDevices is undefined.
DOMException(name, message) == [dom |-> TRUE, name |-> name, message |-> message]
TypeError(message) == [dom |-> FALSE, name |-> "TypeError", message |-> message]

NoMediaDevices == TypeError("navigator.mediaDevices is undefined")

MediaErrors ==
  {DOMException("NotAllowedError", "Permission denied"),
   DOMException("NotFoundError", "Requested device not found"),
   DOMException("NotReadableError", "Could not start video source"),
   DOMException("OverconstrainedError", "Constraints could not be satisfied"),
   DOMException("AbortError", "interrupted"),
   TypeError("bad constraints")}

PlayErrors ==
  {DOMException("NotAllowedError", "play() failed"),
   DOMException("AbortError", "The play() request was interrupted"),
   DOMException("NotSupportedError", "no source")}

\* 327-343
getErrorMessage(err) ==
  IF err.dom
    THEN CASE err.name = "NotAllowedError" ->
                "Camera access denied. Please allow camera permissions in your browser settings."
           [] err.name = "NotFoundError" ->
                "No camera found. Please connect a camera and try again."
           [] err.name = "NotReadableError" ->
                "Camera is already in use by another application."
           [] err.name = "OverconstrainedError" ->
                "Camera does not support the requested settings."
           [] OTHER -> "Camera error: " \o err.message
    ELSE "An unexpected error occurred while accessing the camera."

\* result.data.text of a recognition: nothing, a line of prose between line
\* feeds, and two lines of a passport with a line feed after them.
OcrTexts ==
  {<<>>,
   <<"\n">> \o LinePlain29 \o <<"\n">>,
   joinLines(<<LineFiller44, LineFiller46>>) \o <<"\n">>}

\* The parser on the lines of a recognition: it returns valid, returns
\* invalid, or throws.
OcrParsers == {p \in Parsers : p.second = "valid" /\ p.fields = FieldsPassport}

\* What Tesseract hands to the logger: a status, and the progress in
\* thousandths (300 is 0.3), from 0 to 1000.
LoggerStatuses == {"loading tesseract core", "recognizing text"}
LoggerProgress == {0, 285, 300, 504, 1000}

\* The thousandths ending in 5 for which the double nearest to the progress,
\* multiplied by 100, falls below the half: 0.285 * 100 is
\* 28.499999999999996.
BelowHalf == {145, 285, 565, 575}

\* Math.round(progress * 100), progress in thousandths: a half goes up, and
\* a product that fell below the half goes down.
roundPercent(thousandths) ==
  IF thousandths \in BelowHalf
    THEN thousandths \div 10
    ELSE (thousandths + 5) \div 10

ScansInFlight == inFlight.video + inFlight.image

\* 46-51, 66-71: startCamera up to its first await; where mediaDevices is
\* undefined line 51 throws before it awaits and the catch block runs at once.
StartCamera ==
  /\ \E mediaDevices \in BOOLEAN :
       IF mediaDevices
         THEN /\ handles + starting.media + starting.play < MaxTimers
              /\ error' = NoError
              /\ starting' = [starting EXCEPT !.media = @ + 1]
              /\ UNCHANGED isStreaming
         ELSE /\ error' = getErrorMessage(NoMediaDevices)
              /\ isStreaming' = FALSE
              /\ UNCHANGED starting
  /\ quiet' = FALSE
  /\ stale' = 0
  /\ UNCHANGED <<isScanning, scanProgress, scannedText, inFlight,
                 mediaStream, scanInterval, timers, handles,
                 mrzData, mrzError, studyVars>>

\* 51-61: getUserMedia resolved; startCamera up to its second await
MediaGranted ==
  /\ starting.media > 0
  /\ mediaStream' = "stream"
  /\ starting' = [media |-> starting.media - 1, play |-> starting.play + 1]
  /\ UNCHANGED <<isStreaming, isScanning, scanProgress, scannedText, error,
                 inFlight, quiet, stale, scanInterval, timers, handles,
                 mrzData, mrzError, studyVars>>

\* 66-71: getUserMedia rejected; the catch block
MediaDenied ==
  /\ starting.media > 0
  /\ starting' = [starting EXCEPT !.media = @ - 1]
  /\ \E err \in MediaErrors : error' = getErrorMessage(err)
  /\ isStreaming' = FALSE
  /\ UNCHANGED <<isScanning, scanProgress, scannedText, inFlight, quiet, stale,
                 mediaStream, scanInterval, timers, handles,
                 mrzData, mrzError, studyVars>>

\* 62-65, 85-92: play resolved; isStreaming set and startContinuousScanning,
\* which stores the handle of a new timer over the old one
Playing ==
  /\ starting.play > 0
  /\ starting' = [starting EXCEPT !.play = @ - 1]
  /\ isStreaming' = TRUE
  /\ handles' = handles + 1
  /\ scanInterval' = handles + 1
  /\ timers' = timers \cup {handles + 1}
  /\ UNCHANGED <<isScanning, scanProgress, scannedText, error, inFlight,
                 quiet, stale, mediaStream, mrzData, mrzError, studyVars>>

\* 66-71: play rejected; the catch block
PlayFailed ==
  /\ starting.play > 0
  /\ starting' = [starting EXCEPT !.play = @ - 1]
  /\ \E err \in PlayErrors : error' = getErrorMessage(err)
  /\ isStreaming' = FALSE
  /\ UNCHANGED <<isScanning, scanProgress, scannedText, inFlight, quiet, stale,
                 mediaStream, scanInterval, timers, handles,
                 mrzData, mrzError, studyVars>>

\* 74-83, 94-99: stopCamera with stopContinuousScanning, which clears the
\* timer whose handle scanInterval holds
StopCamera ==
  /\ timers' = timers \ {scanInterval}
  /\ scanInterval' = NoTimer
  /\ mediaStream' = "null"
  /\ isStreaming' = FALSE
  /\ scannedText' = <<>>
  /\ quiet' = TRUE
  /\ stale' = inFlight.video
  /\ UNCHANGED <<isScanning, scanProgress, error, inFlight, handles, starting,
                 mrzData, mrzError, studyVars>>

\* 101-126: scanTextFromVideo up to its await.  ctx: getContext('2d')
\* returned a context.
BeginVideoScan(ctx) ==
  IF ~isStreaming
    THEN UNCHANGED <<isScanning, scanProgress, mrzError, inFlight>>
    ELSE /\ scanProgress' = 0
         /\ mrzError' = NoError
         /\ IF ctx
              THEN /\ isScanning' = TRUE
                   /\ inFlight' = [inFlight EXCEPT !.video = @ + 1]
              ELSE /\ isScanning' = FALSE
                   /\ UNCHANGED inFlight

\* 87-91: the callback of a timer
TimerTick ==
  /\ \E h \in timers : isStreaming /\ ~isScanning
  /\ ScansInFlight < MaxScans
  /\ \E ctx \in BOOLEAN : BeginVideoScan(ctx)
  /\ UNCHANGED <<isStreaming, scannedText, error, quiet, stale, cameraVars,
                 mrzData, studyVars>>

\* part_001 48-50: scanNow
ScanNow ==
  /\ ScansInFlight < MaxScans
  /\ \E ctx \in BOOLEAN : BeginVideoScan(ctx)
  /\ quiet' = FALSE
  /\ stale' = 0
  /\ UNCHANGED <<isStreaming, scannedText, error, cameraVars,
                 mrzData, studyVars>>

\* part_001 52-54, 151-156: scanCapturedImage; scanTextFromImage up to its
\* await
ScanCapturedImage ==
  /\ ScansInFlight < MaxScans
  /\ isScanning' = TRUE
  /\ scanProgress' = 0
  /\ mrzError' = NoError
  /\ inFlight' = [inFlight EXCEPT !.image = @ + 1]
  /\ quiet' = FALSE
  /\ stale' = 0
  /\ UNCHANGED <<isStreaming, scannedText, error, cameraVars,
                 mrzData, studyVars>>

\* 127-131, 158-162: the logger of a recognition under way
Recognizing ==
  /\ ScansInFlight > 0
  /\ \E status \in LoggerStatuses : \E progress \in LoggerProgress :
       IF status = "recognizing text"
         THEN scanProgress' = roundPercent(progress)
         ELSE UNCHANGED scanProgress
  /\ UNCHANGED <<isStreaming, isScanning, scannedText, error, inFlight, quiet,
                 stale, cameraVars, mrzData, mrzError, studyVars>>

\* 138-143, 169-174: after parseMRZFromText, which left r behind
Publish(r) ==
  /\ mrzData' = r.mrzData
  /\ mrzError' = r.mrzError
  /\ isScanning' = FALSE
  /\ IF r.escaped THEN UNCHANGED scanProgress ELSE scanProgress' = 100

\* 135-138, 166-169: the text recognized, trimmed, is published and parsed
Recognized(recognized, p) ==
  /\ scannedText' = recognized
  /\ Publish(parseMRZFromText(recognized, p,
                              [mrzData |-> mrzData, mrzError |-> mrzError]))

\* A recognition settles: one of the image, one of the video that was in
\* flight when stopCamera returned, or one of the video started since.
Settles ==
  \/ /\ inFlight.image > 0
     /\ inFlight' = [inFlight EXCEPT !.image = @ - 1]
     /\ UNCHANGED stale
  \/ /\ stale > 0
     /\ inFlight' = [inFlight EXCEPT !.video = @ - 1]
     /\ stale' = stale - 1
  \/ /\ inFlight.video > stale
     /\ inFlight' = [inFlight EXCEPT !.video = @ - 1]
     /\ UNCHANGED stale

\* 134-143, 165-174: recognize resolved; the scan after its await
OcrDone ==
  /\ Settles
  /\ \E t \in OcrTexts : \E p \in OcrParsers : Recognized(trim(t), p)
  /\ UNCHANGED <<isStreaming, error, quiet, cameraVars, studyVars>>

\* 144-148, 175-179: recognize rejected; the catch block of the scan
OcrFailed ==
  /\ Settles
  /\ isScanning' = FALSE
  /\ UNCHANGED <<isStreaming, scanProgress, scannedText, error, quiet,
                 cameraVars, mrzData, mrzError, studyVars>>

\* 283-287: clearScannedText
ClearScannedText ==
  /\ scannedText' = <<>>
  /\ mrzData' = NullData
  /\ mrzError' = NoError
  /\ UNCHANGED <<isStreaming, isScanning, scanProgress, error, inFlight, quiet,
                 stale, cameraVars, studyVars>>

Init ==
  /\ ServiceIdle
  /\ PipelineIdle
  /\ DateIdle
  /\ CheckIdle
  /\ DocIdle
  /\ pc = "ready"

Next ==
  \/ StartCamera \/ MediaGranted \/ MediaDenied \/ Playing \/ PlayFailed
  \/ StopCamera \/ TimerTick \/ ScanNow \/ ScanCapturedImage \/ Recognizing
  \/ OcrDone \/ OcrFailed \/ ClearScannedText

Spec == Init /\ [][Next]_vars

(***************************************************************************)
(* The filter and the normalizer of parseMRZFromText applied to the lines  *)
(* of an input text.                                                       *)
(***************************************************************************)
\* 208, 213, 220, 223: the widths lines are fitted to
Widths == {TD1Width, TD2Width, TD3Width}

\* Every line normalized for the width w.
normalizedAll(lines, w) ==
  [i \in 1..Len(lines) |-> normalized(lines[i], w)] \o <<>>

InitLines ==
  /\ text \in Texts
  /\ SignalsIdle
  /\ LinesIdle
  /\ pc = "ready"
  /\ DateIdle
  /\ CheckIdle
  /\ DocIdle
  /\ ServiceIdle

\* 185-188: the lines split, trimmed, put in upper case and filtered
Classify ==
  /\ pc = "ready"
  /\ selectedLines' = mrzLinesOf(text)
  /\ pc' = "classified"
  /\ UNCHANGED <<text, parser, mrzData, mrzError, parserCalls, escaped, prior,
                 width, fitted, refitted, dateVars, checkVars, docVars,
                 serviceVars>>

\* 185, 197-201, 208: the lines normalized for one of the widths
Normalize ==
  /\ pc = "classified"
  /\ \E w \in Widths : width' = w /\ fitted' = normalizedAll(split(text), w)
  /\ pc' = "normalized"
  /\ UNCHANGED <<text, parser, mrzData, mrzError, parserCalls, escaped, prior,
                 selectedLines, refitted, dateVars, checkVars, docVars, serviceVars>>

\* The normalizer applied to its own output, for the same width.
NormalizeAgain ==
  /\ pc = "normalized"
  /\ refitted' = normalizedAll(fitted, width)
  /\ pc' = "done"
  /\ UNCHANGED <<text, parser, mrzData, mrzError, parserCalls, escaped, prior,
                 selectedLines, width, fitted, dateVars, checkVars, docVars,
                 serviceVars>>

NextLines == Classify \/ Normalize \/ NormalizeAgain

SpecLines == InitLines /\ [][NextLines]_vars

(***************************************************************************)
(* The pipeline run once on an input text.                                 *)
(***************************************************************************)
InitParse ==
  /\ text \in Texts
  /\ parser \in Parsers
  /\ prior \in PriorSignals
  /\ mrzData = prior.mrzData
  /\ mrzError = prior.mrzError
  /\ parserCalls = <<>>
  /\ escaped = FALSE
  /\ pc = "ready"
  /\ LinesIdle
  /\ DateIdle
  /\ CheckIdle
  /\ DocIdle
  /\ ServiceIdle

\* The signals and the observations of the call after it: r is what
\* parseMRZFromText leaves behind.
Returned(r) ==
  /\ mrzData' = r.mrzData
  /\ mrzError' = r.mrzError
  /\ parserCalls' = r.calls
  /\ escaped' = r.escaped

ParseMRZFromText ==
  /\ pc = "ready"
  /\ Returned(parseMRZFromText(text, parser,
                               [mrzData |-> mrzData, mrzError |-> mrzError]))
  /\ pc' = "done"
  /\ UNCHANGED <<text, parser, prior, linesVars, dateVars, checkVars, docVars,
                 serviceVars>>

\* clearScannedText before the invocation
ClearBeforeParse ==
  /\ pc = "ready"
  /\ scannedText' = <<>>
  /\ mrzData' = NullData
  /\ mrzError' = NoError
  /\ prior' = FreshSignals
  /\ UNCHANGED <<pc, text, parser, parserCalls, escaped, dateVars, checkVars,
                 docVars, linesVars, isStreaming, isScanning, scanProgress, error,
                 inFlight, quiet, stale, cameraVars>>

NextParse == ParseMRZFromText \/ ClearBeforeParse

SpecParse == InitParse /\ [][NextParse]_vars

(***************************************************************************)
(* Properties of the pipeline, under SpecParse.                            *)
(***************************************************************************)
Done == pc = "done"

\* The parser's last call of the invocation, when it made one.
LastCall == parserCalls[Len(parserCalls)]

Published == mrzData # NullData

\* The width and the number of lines of each format.
WidthOf(format) ==
  CASE format = "TD1" -> TD1Width [] format = "TD2" -> TD2Width [] OTHER -> TD3Width
LinesOf(format) == IF format = "TD1" THEN TD1Lines ELSE TD2Lines

\* C1: after a completed parseMRZFromText exactly one output is present:
\* a record (mrzData non-null, mrzError null) or a diagnostic (mrzError one of
\* the four messages, mrzData null); never both, never neither.
C1_ExactlyOneOutput ==
  Done => \/ (mrzData # NullData /\ mrzError = NoError)
          \/ (mrzData = NullData /\ mrzError \in Diagnostics)

\* C1 happens: an invocation on a text that is not empty and holds no
\* candidate line ended with a diagnostic and no record.
C1_Witness ==
  /\ Done
  /\ mrzData = NullData
  /\ mrzError = NoMRZMsg
  /\ Len(text) > 0

\* C2 as claimed: with 3 or more candidate lines, a TD1 attempt that fails
\* (throws or returns invalid) and first two lines that parse as valid TD2,
\* the pipeline publishes a valid record from a TD2 attempt.
C2_FallbackRecoversTD2 ==
  (/\ Done
   /\ Len(mrzLinesOf(text)) >= 3
   /\ parser.first # "valid"
   /\ parser.second = "valid")
  => (/\ Published
      /\ mrzData.valid
      /\ mrzError = NoError
      /\ LastCall.format = "TD2")

\* C3: no exception reaches the caller of parseMRZFromText, and every
\* failure ends with a diagnostic published: the one of the catch block when
\* the parser's last call threw.
C3_NothingEscapes ==
  Done => /\ ~escaped
          /\ (~Published => mrzError \in Diagnostics)
          /\ (parserCalls # <<>> /\ LastCall.result.threw
                => mrzData = NullData /\ mrzError = CouldNotParseMsg)

\* C3 happens: the TD1 attempt threw, the TD2 attempt threw too, and the
\* call returned with the catch block's diagnostic.
C3_Witness ==
  /\ Done
  /\ Len(parserCalls) = 2
  /\ parserCalls[1].result.threw
  /\ parserCalls[2].result.threw
  /\ ~escaped
  /\ mrzError = CouldNotParseMsg

\* The lines of the text that contain the filler character.
FillerLines(t) == SelectSeq(split(t), LAMBDA l : includes(l, "<"))

\* C5: with 0 or 1 candidate lines the parser is never called and a
\* diagnostic is returned: "incomplete" for one candidate line (so when
\* exactly one line holds a filler), "no candidates" for none (so for the
\* empty text).
TooFewLines(candidates) ==
  candidates <= 1
  => (/\ parserCalls = <<>>
      /\ mrzData = NullData
      /\ (candidates = 1 => mrzError = IncompleteMsg)
      /\ (candidates = 0 => mrzError = NoMRZMsg)
      /\ (Len(FillerLines(text)) = 1 => mrzError = IncompleteMsg)
      /\ (text = <<>> => mrzError = NoMRZMsg))

C5_TooFewLines == Done => TooFewLines(Len(mrzLinesOf(text)))

\* C5 happens: a text of several lines, exactly one of them with a filler
\* and no other a candidate, ended "incomplete" without a call of the parser.
C5_Witness ==
  /\ Done
  /\ Len(split(text)) > 1
  /\ Len(FillerLines(text)) = 1
  /\ Len(mrzLinesOf(text)) = 1
  /\ parserCalls = <<>>
  /\ mrzError = IncompleteMsg

\* C6: a record is published if and only if the parser's last call returned
\* valid = true; a last call that returned valid = false gives "validation
\* failed"; and every record ever published has valid = true.
C6_RecordIffValid ==
  /\ (Published => mrzData.valid)
  /\ (Done => (Published <=> (/\ parserCalls # <<>>
                              /\ ~LastCall.result.threw
                              /\ LastCall.result.valid)))
  /\ (Done /\ parserCalls # <<>> /\ ~LastCall.result.threw /\ ~LastCall.result.valid
        => mrzData = NullData /\ mrzError = ValidationFailedMsg)

\* C6 happens: two lines of 44 characters went to the parser as TD3, it
\* returned valid = false, and "validation failed" was published.
C6_Witness ==
  /\ Done
  /\ Len(parserCalls) = 1
  /\ LastCall.format = "TD3"
  /\ ~LastCall.result.threw
  /\ ~LastCall.result.valid
  /\ mrzError = ValidationFailedMsg

\* C7: a line normalized for a width W in {30, 36, 44} has length exactly W,
\* and every line handed to the parser has the width of the format attempted.
AllFit(lines) ==
  \A i \in 1..Len(lines) : \A w \in {TD1Width, TD2Width, TD3Width} :
    Len(normalized(lines[i], w)) = w

C7_WidthInvariant ==
  /\ Done => AllFit(split(text))
  /\ \A k \in 1..Len(parserCalls) : \A i \in 1..Len(parserCalls[k].lines) :
       Len(parserCalls[k].lines[i]) = WidthOf(parserCalls[k].format)

\* C7 happens: a TD3 attempt was made on a first line longer than 44
\* characters and a second line shorter than 44.
CutAndPadded(cleaned) ==
  /\ Len(cleaned[1]) > TD3Width
  /\ Len(cleaned[2]) < TD3Width
  /\ LastCall.lines[1] = SubSeq(cleaned[1], 1, TD3Width)
  /\ SubSeq(LastCall.lines[2], 1, Len(cleaned[2])) = cleaned[2]

C7_Witness ==
  /\ Done
  /\ Len(parserCalls) = 1
  /\ LastCall.format = "TD3"
  /\ Len(LastCall.lines[1]) = TD3Width
  /\ Len(LastCall.lines[2]) = TD3Width
  /\ CutAndPadded(cleanedLinesOf(mrzLinesOf(text)))

\* C8 as claimed: the rawMRZ of a published record is the sequence of lines
\* that was handed to the parser's successful call: as many lines as the
\* format has, each of the format's width.
C8_RawIsWhatWasParsed ==
  (Done /\ Published)
  => (/\ mrzData.rawMRZ = LastCall.lines
      /\ Len(mrzData.rawMRZ) = LinesOf(LastCall.format)
      /\ \A i \in 1..Len(mrzData.rawMRZ) :
           Len(mrzData.rawMRZ[i]) = WidthOf(LastCall.format))

\* The parser threw in an attempt other than the TD1 attempt: in the TD2
\* attempt that follows a TD1 attempt, or in the only attempt, TD2 or TD3,
\* made with 2 candidate lines.
ThrewOutsideTD1 ==
  /\ Done
  /\ parserCalls # <<>>
  /\ LastCall.format # "TD1"
  /\ LastCall.result.threw

\* C13 as claimed: a failure raised by the parser in an attempt other than
\* the TD1 attempt reaches the caller as the diagnostic "validation failed".
C13_ThrowGivesValidationFailed ==
  ThrewOutsideTD1 => mrzData = NullData /\ mrzError = ValidationFailedMsg

\* C13, amended: a failure raised by the parser in an attempt other than the
\* TD1 attempt reaches the caller as the diagnostic "could not parse" of the
\* catch block, without a record and without an exception; a TD1 attempt
\* that throws is always followed by a TD2 attempt.
C13_ThrowGivesCouldNotParse ==
  /\ ThrewOutsideTD1
       => mrzData = NullData /\ mrzError = CouldNotParseMsg /\ ~escaped
  /\ (Done /\ parserCalls # <<>> /\ parserCalls[1].result.threw
             /\ parserCalls[1].format = "TD1")
       => Len(parserCalls) = 2 /\ parserCalls[2].format = "TD2"

\* C13 happens: with 2 candidate lines the only attempt, a TD2 attempt,
\* threw, and the call returned with the catch block's diagnostic.
C13_Witness ==
  /\ ThrewOutsideTD1
  /\ Len(parserCalls) = 1
  /\ LastCall.format = "TD2"
  /\ Len(mrzLinesOf(text)) = 2
  /\ mrzData = NullData
  /\ mrzError = CouldNotParseMsg

\* C14: the retry ladder is bounded and ordered.  In one invocation the
\* parser is called at most twice; a second call is made only after a TD1
\* attempt that failed and is a TD2 attempt on the first 2 candidate lines;
\* a TD3 attempt is the only call of its invocation and is made with fewer
\* than 3 candidate lines.
Ladder(candidates) ==
  /\ Len(parserCalls) <= 2
  /\ Len(parserCalls) = 2
       => /\ parserCalls[1].format = "TD1"
          /\ ~parserCalls[1].result.valid
          /\ Len(candidates) >= 3
          /\ parserCalls[2].format = "TD2"
          /\ parserCalls[2].lines =
               <<fitWidth(cleanLine(candidates[1]), TD2Width),
                 fitWidth(cleanLine(candidates[2]), TD2Width)>>
  /\ \A k \in 1..Len(parserCalls) :
       parserCalls[k].format = "TD3"
         => Len(parserCalls) = 1 /\ Len(candidates) < 3

C14_RetryLadder ==
  /\ Len(parserCalls) <= 2
  /\ Done => Ladder(mrzLinesOf(text))

\* C14 happens: the TD1 attempt threw, the TD2 attempt on the first two of
\* three candidate lines returned valid, and its record was published.
C14_Witness ==
  /\ Done
  /\ Len(parserCalls) = 2
  /\ parserCalls[1].format = "TD1"
  /\ parserCalls[1].result.threw
  /\ parserCalls[2].format = "TD2"
  /\ parserCalls[2].result.valid
  /\ Len(mrzLinesOf(text)) = 3
  /\ Published

\* C15: with exactly 2 candidate lines the format is chosen from the first
\* line alone: TD3, both lines at width 44, when the first line without its
\* whitespace, before it is cut or padded, has 44 characters or more, and
\* TD2, both lines at width 36, otherwise, whatever the length of the
\* second line.
ChosenByFirstLine(candidates) ==
  Len(candidates) = 2
  => /\ Len(parserCalls) = 1
     /\ LastCall.format =
          (IF Len(stripWhitespace(candidates[1])) >= TD3Width THEN "TD3" ELSE "TD2")
     /\ Len(LastCall.lines) = 2
     /\ \A i \in 1..2 :
          LastCall.lines[i] = normalized(candidates[i], WidthOf(LastCall.format))

C15_FormatFromFirstLine == Done => ChosenByFirstLine(mrzLinesOf(text))

\* C15 happens: a first line of 43 characters besides its whitespace (46
\* with it) and a second line of 46 characters went to the parser as TD2,
\* the second line cut to 36 characters.
C15_Witness ==
  /\ Done
  /\ text = joinLines(<<LineFiller43, LineFiller46>>)
  /\ Len(LineFiller43) >= TD3Width
  /\ Len(parserCalls) = 1
  /\ LastCall.format = "TD2"
  /\ LastCall.lines[2] = SubSeq(LineFiller46, 1, TD2Width)

\* C17: the pipeline is stateless and deterministic: the invocation
\* published what an invocation on the same text with the same parser
\* publishes from any other values of mrzData and mrzError: those of the
\* construction or of clearScannedText, of a failure, of a success.
SamePublished(r) == r.mrzData = mrzData /\ r.mrzError = mrzError

C17_Stateless ==
  Done => \A prev \in PriorSignals \ {prior} :
            SamePublished(parseMRZFromText(text, parser, prev))

\* C17 happens: an invocation that found a record left by an earlier one
\* published the diagnostic of its own text, and an invocation that finds
\* the signals cleared publishes the same.
C17_Witness ==
  /\ Done
  /\ prior = StaleSignals
  /\ mrzData = NullData
  /\ mrzError = IncompleteMsg
  /\ SamePublished(parseMRZFromText(text, parser, FreshSignals))

(***************************************************************************)
(* Properties of the filter and of the normalizer, under SpecLines.        *)
(***************************************************************************)
\* C11: the normalizer is idempotent: applied for a width W to a line that
\* is already its output for the same W, it returns that line unchanged.
C11_NormalizerIdempotent ==
  Done => /\ Len(fitted) = Len(split(text))
          /\ refitted = fitted

\* C11 happens: a line with lower case letters, a space and several O,
\* longer than 30 characters, was changed by the normalizer for the width
\* 30, and its output was not changed by a second pass.
Renormalized(line, once, twice) ==
  /\ once # line
  /\ Len(once) < Len(line)
  /\ \E i \in 1..Len(line) : line[i] = "O"
  /\ \A i \in 1..Len(once) : once[i] # "O"
  /\ twice = once

C11_Witness ==
  /\ Done
  /\ width = TD1Width
  /\ split(text)[1] = LinePlain30
  /\ Renormalized(LinePlain30, fitted[1], refitted[1])

\* Upper case letters, digits and the filler only, 30 characters or more.
OnlyMRZCharacters(s) ==
  /\ Len(s) >= 30
  /\ \A i \in 1..Len(s) : s[i] \in Range(Upper) \cup Range(Digits) \cup {"<"}

\* The places of the lines that hold a filler or that, without their
\* whitespace, consist of MRZ characters only: taken as they are in the
\* input, and taken in upper case.
ChosenAsWritten(lines) ==
  {i \in 1..Len(lines) :
     includes(lines[i], "<") \/ OnlyMRZCharacters(stripWhitespace(lines[i]))}

ChosenInUpperCase(lines) ==
  {i \in 1..Len(lines) :
     includes(lines[i], "<")
       \/ OnlyMRZCharacters(stripWhitespace(toUpperCase(lines[i])))}

\* selected holds the lines at the places chosen, trimmed and in upper case,
\* in the order of the input, and nothing else.
SelectsExactly(lines, selected, chosen) ==
  /\ Len(selected) = Cardinality(chosen)
  /\ \A i \in chosen :
       selected[Cardinality({k \in chosen : k <= i})] = toUpperCase(trim(lines[i]))

Classified == pc # "ready"

\* C16 as claimed: the classifier selects exactly the lines of the input
\* that contain the filler or that, after whitespace removal, consist only
\* of upper case letters, digits and fillers with length at least 30, in
\* the order of the input, and no other line.
C16_SelectsLinesAsWritten ==
  Classified => SelectsExactly(split(text), selectedLines, ChosenAsWritten(split(text)))

\* C16, amended: the classifier selects exactly the lines that contain the
\* filler or that, put in upper case and after whitespace removal, consist
\* only of upper case letters, digits and fillers with length at least 30
\* (a lower case letter counts as its upper case form), in the order of the
\* input, and no other line.
C16_SelectsLinesInUpperCase ==
  Classified => SelectsExactly(split(text), selectedLines, ChosenInUpperCase(split(text)))

\* C16 happens: of three lines, one with fillers, one of 29 characters
\* besides whitespace and one of 30 with lower case letters, the first and
\* the third were selected, in that order.
C16_Witness ==
  /\ Classified
  /\ text = joinLines(<<LineFiller44, LinePlain29, LinePlain30>>)
  /\ ChosenInUpperCase(split(text)) = {1, 3}
  /\ ChosenAsWritten(split(text)) = {1}
  /\ selectedLines = <<toUpperCase(LineFiller44), toUpperCase(LinePlain30)>>

(***************************************************************************)
(* Properties of the service at work, under Spec.                          *)
(***************************************************************************)
\* C18 as claimed: under any interleaving of the timer, of scanNow and of
\* scanCapturedImage, isScanning is true whenever a recognition is in
\* flight, and at most one recognition is in flight at a time.
C18_InFlightFlag ==
  /\ (ScansInFlight >= 1 => isScanning)
  /\ ScansInFlight <= 1

\* C19 as claimed: after any sequence of startCamera and stopCamera calls at
\* most one timer is active, and after stopCamera has returned none is.
C19_AtMostOneTimer ==
  /\ Cardinality(timers) <= 1
  /\ (quiet => timers = {})

\* C20 as claimed: once stopCamera has returned, and until startCamera or a
\* scan is asked for, a recognition started from the video before the stop
\* publishes nothing when it completes: scannedText stays empty, mrzData
\* and mrzError stay as they are.
C20_SilentAfterStop ==
  [][(quiet /\ quiet' /\ stale' < stale)
       => (scannedText' = <<>> /\ mrzData' = mrzData /\ mrzError' = mrzError)]_vars

(***************************************************************************)
(* Properties of formatMRZDate, under SpecDate.                            *)
(***************************************************************************)
IsDigit(c) == c \in Range(Digits)

SixDigits(d) == Len(d) = 6 /\ \A i \in 1..6 : IsDigit(d[i])

\* The number a digit stands for.
NumberOf(c) == CHOOSE n \in 0..9 : Digits[n + 1] = c

\* C9 as claimed: every date string that is not exactly 6 digits, a string of
\* length 6 with a letter or a filler included, is projected to ''.
C9_NotSixDigitsGivesEmpty ==
  (Done /\ ~SixDigits(dateArg)) => dateOut = <<>>

\* C10: a date of 6 digits YYMMDD is projected to 20YY-MM-DD when YY < 30
\* and to 19YY-MM-DD otherwise; 290101 gives 2029-01-01 and 300101 gives
\* 1930-01-01.
C10_CenturyInference ==
  /\ (Done /\ SixDigits(dateArg))
       => dateOut =
            (IF 10 * NumberOf(dateArg[1]) + NumberOf(dateArg[2]) < 30
               THEN <<"2", "0">> ELSE <<"1", "9">>)
            \o <<dateArg[1], dateArg[2], "-", dateArg[3], dateArg[4], "-",
                 dateArg[5], dateArg[6]>>
  /\ (Done /\ dateArg = <<"2", "9", "0", "1", "0", "1">>
       => dateOut = <<"2", "0", "2", "9", "-", "0", "1", "-", "0", "1">>)
  /\ (Done /\ dateArg = <<"3", "0", "0", "1", "0", "1">>
       => dateOut = <<"1", "9", "3", "0", "-", "0", "1", "-", "0", "1">>)

\* C10 happens: 290101 was projected, to a date of the 2000s.
C10_Witness ==
  /\ Done
  /\ dateArg = <<"2", "9", "0", "1", "0", "1">>
  /\ dateOut = <<"2", "0", "2", "9", "-", "0", "1", "-", "0", "1">>

(***************************************************************************)
(* Properties of getDocumentType, under SpecDoc.                           *)
(***************************************************************************)
\* The labels of the first characters that have one.
DocLabels ==
  ("P" :> <<"P","a","s","s","p","o","r","t">>)
  @@ ("I" :> <<"I","D"," ","C","a","r","d">>)
  @@ ("A" :> <<"I","D"," ","C","a","r","d"," ","(","T","y","p","e"," ","A",")">>)
  @@ ("C" :> <<"I","D"," ","C","a","r","d"," ","(","T","y","p","e"," ","C",")">>)
  @@ ("V" :> <<"V","i","s","a">>)
  @@ ("D" :> <<"D","r","i","v","e","r","'","s"," ","L","i","c","e","n","s","e">>)

\* C12: the label is determined by the first character of the document
\* code: P gives "Passport", I "ID Card", A and C two ID Card variants, V
\* "Visa", D "Driver's License", any other first character "Document
\* (<code>)" with the full code, and the empty code "Unknown".
C12_DocumentTypeLabel ==
  Done =>
    /\ (docCode = <<>> => docType = <<"U","n","k","n","o","w","n">>)
    /\ (docCode # <<>> /\ docCode[1] \in DOMAIN DocLabels
          => docType = DocLabels[docCode[1]])
    /\ (docCode # <<>> /\ docCode[1] \notin DOMAIN DocLabels
          => docType = <<"D","o","c","u","m","e","n","t"," ","(">> \o docCode \o <<")">>)
    /\ SubSeq(DocLabels["A"], 1, 7) = DocLabels["I"]
    /\ SubSeq(DocLabels["C"], 1, 7) = DocLabels["I"]
    /\ DocLabels["A"] # DocLabels["C"]

\* C12 happens: a code of two characters whose first has no label of its
\* own was given the label "Document (X<)".
C12_Witness ==
  /\ Done
  /\ docCode = <<"X", "<">>
  /\ docType = <<"D","o","c","u","m","e","n","t"," ","(","X","<",")">>

(***************************************************************************)
(* Properties of the check digit, under SpecCheck.                         *)
(***************************************************************************)
\* The places where the field read differs from the field built.
Replaced == {i \in 1..Len(ckField) : ckField[i] # ckOriginal[i]}

\* C4 as claimed: a field built with its correct check digit validates, and
\* with any single character replaced by a different one it does not.
C4_AnyReplacementDetected ==
  Done => (ckValid <=> Replaced = {})

\* C4, amended: a field built with its correct check digit validates; with
\* one character replaced it fails to validate exactly when the values of
\* the two characters differ modulo 10.
C4_ReplacementDetectedModulo10 ==
  Done =>
    /\ (Replaced = {} => ckValid)
    /\ \A i \in Replaced :
         ckValid <=> (CharValue(ckField[i]) % 10 = CharValue(ckOriginal[i]) % 10)

\* C4 happens: the fourth character of a field, under the weight 7 again,
\* was replaced by one of another value modulo 10, and validation failed.
C4_Witness ==
  /\ Done
  /\ Replaced = {4}
  /\ CharValue(ckField[4]) % 10 # CharValue(ckOriginal[4]) % 10
  /\ ~ckValid

====
